---- MODULE Spec2Model ----
(***************************************************************************)
(* Model of the chat relay of src/src/main.rs: user_connected,             *)
(* user_message, user_disconnected, the Users registry behind its RwLock,  *)
(* the per-user unbounded channel and the task forwarding it to the        *)
(* user's websocket.                                                       *)
(*                                                                         *)
(* The gateway client functions (_wsclient_connect and the other           *)
(* _wsclient_* functions) have empty bodies and no caller in main.rs, so   *)
(* they contribute no state and no action.                                 *)
(***************************************************************************)
EXTENDS Integers, Sequences, FiniteSets, TLC

\* Number of client connections the server accepts in a run.
MaxConns == 3
\* Number of websocket messages read from all clients in a run.
MaxMsgs == 2

Conns == 1..MaxConns
\* Values NEXT_USER_ID hands out in a run (it starts at 1).
Ids == 1..MaxConns

\* Text payloads a client may send, as sequences of characters.
Texts == {<<"a">>, <<"b">>}

\* warp::ws::Message: a Text message carries a string, the other kinds
\* (binary, ping, pong, close) carry none that to_str returns.
TextMessage(s) == [kind |-> "text", text |-> s]
BinaryMessage == [kind |-> "binary", text |-> <<>>]
Inbound == {TextMessage(s) : s \in Texts} \cup {BinaryMessage}

\* Message::to_str: Ok(s) for a Text message, Err(()) otherwise.
to_str(msg) ==
    IF msg.kind = "text" THEN [ok |-> TRUE, s |-> msg.text]
    ELSE [ok |-> FALSE, s |-> <<>>]

DigitChars == <<"0", "1", "2", "3", "4", "5", "6", "7", "8", "9">>

\* Display of a usize: its decimal digits, most significant first.
RECURSIVE ToDigits(_)
ToDigits(n) ==
    IF n < 10 THEN <<DigitChars[n + 1]>>
    ELSE ToDigits(n \div 10) \o <<DigitChars[(n % 10) + 1]>>

\* format!("<User#{}>: {}", my_id, msg)
Format(id, msg) ==
    <<"<", "U", "s", "e", "r", "#">> \o ToDigits(id) \o <<">", ":", " ">> \o msg

\* A channel that hands out the newest message first.
UnboundedSend_Front(queue, open, item) ==
    IF open THEN <<item>> \o queue ELSE queue

\* mpsc::UnboundedSender::send: appends to the queue while the receiver is
\* alive; once the receiver is dropped it returns Err and queues nothing.
UnboundedSend(queue, open, item) ==
    IF open THEN Append(queue, item) ELSE queue

\* A counter too narrow for the connections it numbers: it starts over.
fetch_add_Narrow(v) == IF v >= 2 THEN 1 ELSE v + 1

\* NEXT_USER_ID.fetch_add(1, Ordering::Relaxed): one atomic read-modify-write
\* that returns the old value v and stores this one.  (A usize wraps at its
\* width, 2^64 here: no run of MaxConns connections comes near it.)
fetch_add(v) == v + 1

\* The broadcast loop without its test `my_id != uid`.
IsRecipient_NoSkip(id, uid) == TRUE

\* The test of the broadcast loop: the sender's own entry is skipped.
IsRecipient(id, uid) == id # uid

\* A broadcast loop that gives up at the first send that returns Err.
Remaining_Abort(keys, uid, sent_ok) == IF sent_ok THEN keys \ {uid} ELSE {}

\* What the broadcast loop still has to visit after the iteration for uid:
\* the body of `if let Err(_disconnected) = tx.send(..)` is empty, so a
\* failed send changes nothing about the iteration.
Remaining(keys, uid, sent_ok) == keys \ {uid}

\* A removal that empties the map instead of taking out one key.
MapRemove_Clear(m, k) == <<>>

\* HashMap::insert and HashMap::remove on the Users map (key -> sender; a
\* sender is identified by the connection that owns the receiving end).
MapInsert(m, k, v) == [x \in (DOMAIN m) \cup {k} |-> IF x = k THEN v ELSE m[x]]
MapRemove(m, k) == [x \in (DOMAIN m) \ {k} |-> m[x]]

NoEnq == [u \in Ids |-> <<>>]
\* No user_message call to speak of.
NoMessage == [kind |-> "none", text |-> <<>>]

VARIABLES
    NEXT_USER_ID,  \* the global AtomicUsize
    users,         \* the Users map: id -> connection owning the channel
    readers,       \* connections holding a read guard of the RwLock
    pc,            \* position of each connection's user_connected task
    my_id,         \* my_id of each connection (0 before fetch_add)
    todo,          \* keys the broadcast loop has not visited yet
    chan,          \* the unbounded channel of each connection
    rxOpen,        \* whether the receiver (the forward task) is alive
    nrecv,         \* messages read from clients so far
    lastIn,        \* the msg argument of the user_message call in progress
                   \* (kept after a call that returned at the to_str test)
    benq,          \* call in progress: what it queued so far, by key
    bclosed,       \* call in progress: keys whose send returned Err
    sent,          \* the texts each connection's handler has broadcast, in order
    delivered      \* what each forward task has written to its websocket

vars == <<NEXT_USER_ID, users, readers, pc, my_id, todo, chan, rxOpen, nrecv,
          lastIn, benq, bclosed, sent, delivered>>

Init ==
    /\ NEXT_USER_ID = 1
    /\ users = <<>>
    /\ readers = {}
    /\ pc = [c \in Conns |-> "new"]
    /\ my_id = [c \in Conns |-> 0]
    /\ todo = [c \in Conns |-> {}]
    /\ chan = [c \in Conns |-> <<>>]
    /\ rxOpen = [c \in Conns |-> FALSE]
    /\ nrecv = 0
    /\ lastIn = [c \in Conns |-> NoMessage]
    /\ benq = [c \in Conns |-> NoEnq]
    /\ bclosed = [c \in Conns |-> {}]
    /\ sent = [c \in Conns |-> <<>>]
    /\ delivered = [c \in Conns |-> <<>>]

\* user_connected up to its first await: fetch_add on NEXT_USER_ID, the
\* channel is created and the task forwarding it to the websocket spawned.
\* Connections are numbered in the order of their fetch_add.
Accept(c) ==
    /\ pc[c] = "new"
    /\ \A d \in Conns : d < c => pc[d] # "new"
    /\ NEXT_USER_ID <= MaxConns
    /\ my_id' = [my_id EXCEPT ![c] = NEXT_USER_ID]
    /\ NEXT_USER_ID' = fetch_add(NEXT_USER_ID)
    /\ rxOpen' = [rxOpen EXCEPT ![c] = TRUE]
    /\ pc' = [pc EXCEPT ![c] = "insert"]
    /\ UNCHANGED <<users, readers, todo, chan, nrecv, lastIn, benq, bclosed,
                   sent, delivered>>

\* users.write().await.insert(my_id, tx)
Insert(c) ==
    /\ pc[c] = "insert"
    /\ readers = {}
    /\ users' = MapInsert(users, my_id[c], c)
    /\ pc' = [pc EXCEPT ![c] = "recv"]
    /\ UNCHANGED <<NEXT_USER_ID, readers, my_id, todo, chan, rxOpen, nrecv,
                   lastIn, benq, bclosed, sent, delivered>>

\* user_ws_rx.next() yields Some(Ok(msg)) and user_message is called: a
\* non-text message returns at once, a text message is formatted and the
\* read guard taken for the loop over the map.
Receive(c, msg) ==
    /\ pc[c] = "recv"
    /\ nrecv < MaxMsgs
    /\ nrecv' = nrecv + 1
    /\ lastIn' = [lastIn EXCEPT ![c] = msg]
    /\ benq' = [benq EXCEPT ![c] = NoEnq]
    /\ bclosed' = [bclosed EXCEPT ![c] = {}]
    /\ IF to_str(msg).ok
       THEN /\ sent' = [sent EXCEPT ![c] = Append(@, to_str(msg).s)]
            /\ readers' = readers \cup {c}
            /\ todo' = [todo EXCEPT ![c] = DOMAIN users]
            /\ pc' = [pc EXCEPT ![c] = "bcast"]
       ELSE UNCHANGED <<readers, todo, pc, sent>>
    /\ UNCHANGED <<NEXT_USER_ID, users, my_id, chan, rxOpen, delivered>>

\* let new_msg = format!("<User#{}>: {}", my_id, msg), in the call in progress.
new_msg(c) == Format(my_id[c], to_str(lastIn[c]).s)

\* One iteration of `for (&uid, tx) in users.read().await.iter()`; the
\* HashMap yields its keys in an arbitrary order.
Send(c, uid) ==
    /\ pc[c] = "bcast"
    /\ uid \in todo[c]
    /\ todo' = [todo EXCEPT ![c] =
                   Remaining(@, uid, ~IsRecipient(my_id[c], uid) \/ rxOpen[users[uid]])]
    /\ LET tx == users[uid]
           q == IF IsRecipient(my_id[c], uid)
                THEN UnboundedSend(chan[tx], rxOpen[tx], TextMessage(new_msg(c)))
                ELSE chan[tx]
       IN /\ chan' = [chan EXCEPT ![tx] = q]
          /\ benq' = [benq EXCEPT ![c][uid] =
                         @ \o SubSeq(q, Len(chan[tx]) + 1, Len(q))]
          /\ bclosed' = [bclosed EXCEPT ![c] =
                         IF ~rxOpen[tx] THEN @ \cup {uid} ELSE @]
    /\ UNCHANGED <<NEXT_USER_ID, users, readers, pc, my_id, rxOpen, nrecv,
                   lastIn, sent, delivered>>

\* The loop is over: the read guard is dropped and user_message returns.
EndBroadcast(c) ==
    /\ pc[c] = "bcast"
    /\ todo[c] = {}
    /\ readers' = readers \ {c}
    /\ pc' = [pc EXCEPT ![c] = "recv"]
    /\ lastIn' = [lastIn EXCEPT ![c] = NoMessage]
    /\ benq' = [benq EXCEPT ![c] = NoEnq]
    /\ bclosed' = [bclosed EXCEPT ![c] = {}]
    /\ UNCHANGED <<NEXT_USER_ID, users, my_id, todo, chan, rxOpen, nrecv,
                   sent, delivered>>

\* user_ws_rx.next() yields None, or Some(Err(e)) and the loop breaks.
StreamEnd(c, r) ==
    /\ pc[c] = "recv"
    /\ r \in {"none", "err"}
    /\ pc' = [pc EXCEPT ![c] = "closing"]
    /\ UNCHANGED <<NEXT_USER_ID, users, readers, my_id, todo, chan, rxOpen,
                   nrecv, lastIn, benq, bclosed, sent, delivered>>

\* user_disconnected: users.write().await.remove(&my_id)
Disconnected(c) ==
    /\ pc[c] = "closing"
    /\ readers = {}
    /\ users' = MapRemove(users, my_id[c])
    /\ pc' = [pc EXCEPT ![c] = "done"]
    /\ UNCHANGED <<NEXT_USER_ID, readers, my_id, todo, chan, rxOpen, nrecv,
                   lastIn, benq, bclosed, sent, delivered>>

\* The task rx.forward(user_ws_tx) takes the next queued message and writes
\* it to the websocket; if the write fails the task ends and drops the
\* receiver together with what is still queued.
Forward(c, ok) ==
    /\ rxOpen[c]
    /\ chan[c] # <<>>
    /\ IF ok
       THEN /\ delivered' = [delivered EXCEPT ![c] = Append(@, Head(chan[c]))]
            /\ chan' = [chan EXCEPT ![c] = Tail(@)]
            /\ UNCHANGED rxOpen
       ELSE /\ rxOpen' = [rxOpen EXCEPT ![c] = FALSE]
            /\ chan' = [chan EXCEPT ![c] = <<>>]
            /\ UNCHANGED delivered
    /\ UNCHANGED <<NEXT_USER_ID, users, readers, pc, my_id, todo, nrecv,
                   lastIn, benq, bclosed, sent>>

\* The only sender lives in the map: once it is removed and the queue is
\* drained the receiver yields None and the forward task ends.
ForwardEnd(c) ==
    /\ rxOpen[c]
    /\ pc[c] = "done"
    /\ chan[c] = <<>>
    /\ rxOpen' = [rxOpen EXCEPT ![c] = FALSE]
    /\ UNCHANGED <<NEXT_USER_ID, users, readers, pc, my_id, todo, chan,
                   nrecv, lastIn, benq, bclosed, sent, delivered>>

Next ==
    \/ \E c \in Conns : Accept(c)
    \/ \E c \in Conns : Insert(c)
    \/ \E c \in Conns : \E msg \in Inbound : Receive(c, msg)
    \/ \E c \in Conns : \E uid \in Ids : Send(c, uid)
    \/ \E c \in Conns : EndBroadcast(c)
    \/ \E c \in Conns : \E r \in {"none", "err"} : StreamEnd(c, r)
    \/ \E c \in Conns : Disconnected(c)
    \/ \E c \in Conns : \E ok \in BOOLEAN : Forward(c, ok)
    \/ \E c \in Conns : ForwardEnd(c)

Spec == Init /\ [][Next]_vars

\* The same program under the scheduling the runtime gives it: the
\* broadcast loop has no await in it and runs to its end once it holds the
\* read guard; tokio's RwLock is fair (a queued writer is served before
\* readers that come after it), so a user_disconnected that waits for the
\* write guard gets it.  Weak fairness, the least of what this gives, is
\* all that is assumed.
FairSpec ==
    /\ Spec
    /\ \A c \in Conns : WF_vars(\E uid \in Ids : Send(c, uid))
    /\ \A c \in Conns : WF_vars(EndBroadcast(c))
    /\ \A c \in Conns : WF_vars(Disconnected(c))

\* A call of user_message that has visited every key of the map and still
\* holds its read guard: the map is the one the broadcast ran over.
LoopDone(c) == pc[c] = "bcast" /\ todo[c] = {}

\* The one message `<User#X>: m` the call in progress is to queue.
Expected(c) == <<TextMessage(Format(my_id[c], lastIn[c].text))>>

\* Only a text message gets past the to_str test, and a call given a
\* non-text message has queued nothing.
NonTextQueuesNothing ==
    \A c \in Conns :
        /\ pc[c] = "bcast" => lastIn[c].kind = "text"
        /\ lastIn[c].kind # "text" => benq[c] = NoEnq

\* C10 as stated: for a text message m from user X, user_message queues
\* exactly one `<User#X>: m` on the channel of every user that is in the
\* Users map at the time of the broadcast and whose id differs from X, and
\* nothing on X's own channel; a non-text message queues nothing.
C10_AsStated ==
    /\ NonTextQueuesNothing
    /\ \A c \in Conns : LoopDone(c) =>
           \A uid \in Ids :
               benq[c][uid] =
                   IF uid \in DOMAIN users /\ uid # my_id[c]
                   THEN Expected(c) ELSE <<>>

\* C10 amended: for a text message m from user X, user_message queues
\* exactly one `<User#X>: m` on the channel of every user that is in the
\* Users map at the time of the broadcast, whose id differs from X and
\* whose channel still has its receiver when the send to it is made; it
\* queues nothing on a channel whose receiver is gone, nothing on X's own
\* channel and nothing for an id outside the map; a non-text message
\* queues nothing.
C10_Broadcast ==
    /\ NonTextQueuesNothing
    /\ \A c \in Conns : LoopDone(c) =>
           \A uid \in Ids :
               benq[c][uid] =
                   IF uid \in DOMAIN users /\ uid # my_id[c] /\ uid \notin bclosed[c]
                   THEN Expected(c) ELSE <<>>

\* A broadcast ran to its end over a map holding the sender and another
\* user, and the other user's channel got the message at its tail.
C10_Witness ==
    \E c \in Conns : \E uid \in DOMAIN users :
        /\ LoopDone(c)
        /\ my_id[c] \in DOMAIN users
        /\ uid # my_id[c]
        /\ benq[c][uid] = Expected(c)
        /\ chan[users[uid]] # <<>>
        /\ chan[users[uid]][Len(chan[users[uid]])] = Expected(c)[1]

\* Connections whose user_connected has run its fetch_add, the ones that
\* have disconnected since included.
Accepted == {c \in Conns : pc[c] # "new"}

\* C11: every accepted connection gets an id unique among all connections
\* ever accepted, whatever the interleaving of user_connected calls: ids
\* start at 1, no two connections get the same id, and the id of a user
\* that disconnected is not handed out again (the counter is past it).
C11_UniqueIds ==
    /\ \A c \in Accepted : my_id[c] >= 1 /\ my_id[c] < NEXT_USER_ID
    /\ \A c \in Accepted : (\A d \in Accepted : d >= c) => my_id[c] = 1
    /\ \A c, d \in Accepted : c # d => my_id[c] # my_id[d]
    /\ \A u \in DOMAIN users : \E c \in Accepted : my_id[c] = u /\ users[u] = c

\* A user has disconnected and two later user_connected calls are both
\* between their fetch_add and their insert.
C11_Witness ==
    \E c, d, e \in Conns :
        /\ pc[c] = "done"
        /\ d # e
        /\ pc[d] = "insert" /\ pc[e] = "insert"
        /\ my_id[d] > my_id[c] /\ my_id[e] > my_id[c]

\* The keys the call in progress found with a dead receiver.
Failed(c) == bclosed[c] \ {my_id[c]}

\* C19: a send that fails because the recipient's channel is closed is
\* ignored by user_message: the loop still runs over every key, every other
\* registered user except the sender is still sent the message, the failing
\* recipient keeps its entry, and no step of user_message changes the Users
\* map.
C19_FailedSendIgnored ==
    /\ [](\A c \in Conns : (LoopDone(c) /\ Failed(c) # {}) =>
            /\ Failed(c) \subseteq DOMAIN users
            /\ \A uid \in DOMAIN users \ (Failed(c) \cup {my_id[c]}) :
                   benq[c][uid] = Expected(c))
    /\ [][\A c \in Conns :
             (pc[c] = "bcast" \/ pc'[c] = "bcast") => users' = users]_vars

\* A broadcast over three users ran to its end: the send to one recipient
\* failed, the other recipient got the message.
C19_Witness ==
    \E c \in Conns : \E uid \in DOMAIN users :
        /\ LoopDone(c)
        /\ Failed(c) # {}
        /\ uid \notin Failed(c) \cup {my_id[c]}
        /\ benq[c][uid] = Expected(c)

\* The handler of c is in its receive loop or on its way out of it.
InLoop(c) == pc[c] \in {"recv", "bcast", "closing"}

\* C18: a user is in the Users map before any of its messages is processed;
\* when its receive stream ends or fails the handler reads no more and
\* eventually removes that user's entry and no other; from then on no
\* broadcast queues a message for that user.
C18_Membership ==
    /\ [](\A c \in Conns :
            /\ InLoop(c) => (my_id[c] \in DOMAIN users /\ users[my_id[c]] = c)
            /\ pc[c] = "done" => my_id[c] \notin DOMAIN users
            /\ pc[c] = "done" => \A d \in Conns : my_id[c] \notin todo[d])
    /\ [][\A c \in Conns :
             /\ pc[c] \in {"closing", "done"} =>
                    (pc'[c] \in {"closing", "done"} /\ lastIn'[c] = lastIn[c])
             /\ (pc[c] = "closing" /\ pc'[c] = "done") =>
                    (/\ DOMAIN users' = DOMAIN users \ {my_id[c]}
                     /\ \A u \in DOMAIN users' : users'[u] = users[u])
             /\ pc[c] = "done" => Len(chan'[c]) <= Len(chan[c])]_vars
    /\ \A c \in Conns : (pc[c] = "closing") ~> (pc[c] = "done")

\* A user has been removed, two others are still in the map, and a
\* broadcast by one of them has since run to its end and reached the other.
C18_Witness ==
    \E c, d \in Conns : \E uid \in DOMAIN users :
        /\ pc[c] = "done"
        /\ my_id[c] \notin DOMAIN users
        /\ LoopDone(d)
        /\ uid # my_id[d]
        /\ benq[d][uid] = Expected(d)
        /\ benq[d][my_id[c]] = <<>>

\* The messages `<User#X>: m` of connection x, in the order its handler was
\* given the texts m.
Stamped(x) == [i \in 1..Len(sent[x]) |-> TextMessage(Format(my_id[x], sent[x][i]))]

\* The messages of q that carry the prefix of connection x.
FromUser(q, x) ==
    SelectSeq(q, LAMBDA m : \E t \in Texts : m = TextMessage(Format(my_id[x], t)))

\* a can be had from b by leaving elements out.
RECURSIVE IsSubseq(_, _)
IsSubseq(a, b) ==
    IF a = <<>> THEN TRUE
    ELSE IF b = <<>> THEN FALSE
    ELSE IF Head(a) = Head(b) THEN IsSubseq(Tail(a), Tail(b))
    ELSE IsSubseq(a, Tail(b))

TypeOK ==
    /\ NEXT_USER_ID \in 1..(MaxConns + 1)
    /\ DOMAIN users \subseteq Ids
    /\ \A u \in DOMAIN users : users[u] \in Conns
    /\ readers \subseteq Conns
    /\ \A c \in Conns : pc[c] \in {"new", "insert", "recv", "bcast", "closing", "done"}
    /\ \A c \in Conns : todo[c] \subseteq DOMAIN users
====
